---- MODULE Spec2Model ----
(***************************************************************************)
(* A model of filerefollow/morewikimedia.py: redownload_all walks a        *)
(* directory, redownload parses one marked HTML file, fetches the binary   *)
(* files its "src" attributes name and archives the HTML file.             *)
(*                                                                         *)
(* File names, URLs and the first bytes of a file are sequences of code    *)
(* points, so that unquote, splitext, lower, upper, startswith and slicing *)
(* are computed character by character, as Python computes them.           *)
(***************************************************************************)
EXTENDS Integers, Sequences, FiniteSets, TLC

VARIABLES
    cwd,          \* the process's working directory: "P" (the listed one) or "W"
    dirs,         \* the sub-directories of cwd that exist ("media", "html", "X")
    files,        \* the regular files: a function from <<directory, name>> to content
    pc,           \* where the program is: idle, loop, iter, get (marked, unmarked: SpecMark)
    todo,         \* redownload_all: the entries of os.listdir(parent) not yet visited
    call,         \* redownload: its arguments and local variables
    ret,          \* how the step just taken ended redownload: none, returned, or an exception
    outcomes,     \* the fetch outcomes of the current (or last) call of redownload
    runlog,       \* the last two starts of redownload_all: how each ended, its GETs and moves
    callGets,     \* HTTP GETs issued by the current (or last) call of redownload
    files0,       \* the files when the current (or last) call of redownload started
    dirs0,        \* the directories when the current (or last) call of redownload started
    marking       \* a file name n, and the loop variables sub and new of undo and of redownload_all

vars == <<cwd, dirs, files, pc, todo, call, ret, outcomes, runlog, callGets,
          files0, dirs0, marking>>

(***************************************************************************)
(* Characters and strings.                                                 *)
(***************************************************************************)

\* The code points of the characters the model's names are written with.
Ord ==
    [c \in {"pseudo_colon", "F", "i", "l", "e", "a", "b", "x", "y", "z", "m", "d",
            "M", "I", "D", "p", "o", "g", "h", "t", "3", "2", "0", "5",
            ".", "/", "%", " ", "<", "!", "O", "C", "T", "Y", "P", "E", "X", "c",
            "U", "s", "r", "-", "A", "n", ":", "R", "w", "(", ")", "u", "k", "f"} |->
        CASE c = "pseudo_colon" -> 720
          [] c = "F" -> 70   [] c = "i" -> 105  [] c = "l" -> 108  [] c = "e" -> 101
          [] c = "a" -> 97   [] c = "b" -> 98   [] c = "x" -> 120  [] c = "y" -> 121
          [] c = "z" -> 122  [] c = "m" -> 109  [] c = "d" -> 100  [] c = "M" -> 77
          [] c = "I" -> 73   [] c = "D" -> 68   [] c = "p" -> 112  [] c = "o" -> 111
          [] c = "g" -> 103  [] c = "h" -> 104  [] c = "t" -> 116  [] c = "3" -> 51
          [] c = "2" -> 50   [] c = "0" -> 48   [] c = "5" -> 53   [] c = "." -> 46
          [] c = "/" -> 47   [] c = "%" -> 37   [] c = " " -> 32   [] c = "<" -> 60
          [] c = "!" -> 33   [] c = "O" -> 79   [] c = "C" -> 67   [] c = "T" -> 84
          [] c = "Y" -> 89   [] c = "P" -> 80   [] c = "E" -> 69   [] c = "X" -> 88
          [] c = "c" -> 99   [] c = "U" -> 85   [] c = "s" -> 115  [] c = "r" -> 114
          [] c = "-" -> 45   [] c = "A" -> 65   [] c = "n" -> 110  [] c = ":" -> 58
          [] c = "R" -> 82   [] c = "w" -> 119  [] c = "(" -> 40   [] c = ")" -> 41
          [] c = "u" -> 117  [] c = "k" -> 107  [] c = "f" -> 102]

\* The string (a sequence of code points) written with the characters cs.
S(cs) == [k \in 1..Len(cs) |-> Ord[cs[k]]]

\* s[i:] of Python, for 0 <= i.
Drop(s, i) == IF i >= Len(s) THEN <<>> ELSE SubSeq(s, i + 1, Len(s))

\* s[:i] of Python, for 0 <= i.
Take(s, i) == IF i >= Len(s) THEN s ELSE SubSeq(s, 1, i)

\* s.startswith(prefix)
startswith(s, prefix) ==
    /\ Len(prefix) <= Len(s)
    /\ \A k \in 1..Len(prefix) : s[k] = prefix[k]

\* s.endswith(suffix)
endswith(s, suffix) ==
    /\ Len(suffix) <= Len(s)
    /\ \A k \in 1..Len(suffix) : s[Len(s) - Len(suffix) + k] = suffix[k]

\* s.rfind(c): the 0-based index of the last c in s, or -1.
rfind(s, c) ==
    LET at == {k \in 1..Len(s) : s[k] = c}
    IN  IF at = {} THEN -1 ELSE (CHOOSE k \in at : \A j \in at : j <= k) - 1

\* str.lower() and str.upper() (bytes.upper() on the first bytes of a file); the
\* model's only cased characters are ASCII letters.
lower(s) == [k \in 1..Len(s) |-> IF s[k] >= 65 /\ s[k] <= 90 THEN s[k] + 32 ELSE s[k]]
upper(s) == [k \in 1..Len(s) |-> IF s[k] >= 97 /\ s[k] <= 122 THEN s[k] - 32 ELSE s[k]]

\* Whether code point c is a hexadecimal digit, and its value.
IsHex(c) == (c >= 48 /\ c <= 57) \/ (c >= 65 /\ c <= 70) \/ (c >= 97 /\ c <= 102)
HexVal(c) == IF c <= 57 THEN c - 48 ELSE IF c <= 70 THEN c - 55 ELSE c - 87

\* Whether s starts with a percent escape "%XX", and the byte it stands for.
IsEscape(s) == Len(s) >= 3 /\ s[1] = 37 /\ IsHex(s[2]) /\ IsHex(s[3])
EscapeByte(s) == 16 * HexVal(s[2]) + HexVal(s[3])

\* urllib.parse.unquote(s): each "%XX" becomes the byte XX, and the bytes are decoded
\* as UTF-8 with errors="replace": an ASCII byte is its character, a two-byte
\* sequence is its character, any other byte above 127 becomes U+FFFD (the model's
\* names hold no three- or four-byte sequences). A "%" that starts no escape stays.
RECURSIVE unquote(_)
unquote(s) ==
    IF s = <<>> THEN <<>>
    ELSE IF ~IsEscape(s) THEN <<s[1]>> \o unquote(Drop(s, 1))
    ELSE LET b1 == EscapeByte(s)
             rest == Drop(s, 3)
         IN  IF b1 < 128 THEN <<b1>> \o unquote(rest)
             ELSE IF /\ b1 >= 194 /\ b1 <= 223
                     /\ IsEscape(rest)
                     /\ EscapeByte(rest) >= 128 /\ EscapeByte(rest) <= 191
                  THEN <<(b1 - 192) * 64 + (EscapeByte(rest) - 128)>>
                           \o unquote(Drop(rest, 3))
                  ELSE <<65533>> \o unquote(rest)

\* os.path.splitext(p)[1] (posixpath): the extension starts at the last dot after
\* the last slash, unless only dots precede it in the file name.
splitext_ext(p) ==
    LET sepIndex == rfind(p, Ord["/"])
        dotIndex == rfind(p, Ord["."])
    IN  IF /\ dotIndex > sepIndex
           /\ \E k \in (sepIndex + 1)..(dotIndex - 1) : p[k + 1] # Ord["."]
        THEN Drop(p, dotIndex)
        ELSE <<>>
(***************************************************************************)
(* The module's constants, the documents and the files' contents.          *)
(***************************************************************************)

pseudo_colon == S(<<"pseudo_colon">>)
pseudo_protocol == S(<<"F", "i", "l", "e", "pseudo_colon">>)

\* How many characters redownload_all cuts off a name that starts with
\* pseudo_protocol (sub[5:]) and off one that starts with the pseudo-colon (sub[1:]).
ProtocolCut == 5
ColonCut == 1

\* UA, the concatenation of two string literals, and the headers download passes to
\* requests.get.
UA ==
    S(<<"U", "s", "e", "r", "-", "A", "g", "e", "n", "t", ":", " ", "F",
        "i", "l", "e", "R", "e", "F", "o", "l", "l", "o", "w", "/", "0",
        ".", "2">>)
    \o
    S(<<" ", "(", "h", "t", "t", "p", "s", ":", "/", "/", "g", "i", "t",
        "h", "u", "b", ".", "c", "o", "m", "/", "P", "o", "i", "k", "i",
        "l", "o", "s", "/", "f", "i", "l", "e", "r", "e", "f", "o", "l",
        "l", "o", "w", ")", " ", "f", "i", "l", "e", "r", "e", "f", "o",
        "l", "l", "o", "w", "/", "0", ".", "2">>)
headers == [h \in {"User-Agent"} |-> UA]

\* How many bytes is_html_file reads.
SniffLen == 10

\* The default of redownload's extensions argument.
DefaultExtensions == <<S(<<"m", "i", "d">>)>>

\* Python's None, for a folder argument and for a path.
None == "None"
NoPath == <<>>

\* An element of a parsed document: with a src attribute or without one.
NoSrc == [has_src |-> FALSE, src |-> <<>>]
Src(cs) == [has_src |-> TRUE, src |-> S(<<"h", "/">>) \o S(cs)]

\* An element whose src attribute is the empty string (src="").
BlankSrc == [has_src |-> TRUE, src |-> <<>>]

\* What lh.parse(html_path).iter() yields for a file holding document d.
DocElts(d) ==
    CASE d = "Dnone"  -> <<NoSrc>>
      [] d = "Dtrans" -> <<NoSrc, Src(<<"a", ".", "m", "p", "3">>)>>
      [] d = "D3"     -> <<NoSrc, Src(<<"a", ".", "m", "p", "3">>),
                           Src(<<"a", ".", "o", "g", "g">>),
                           Src(<<"a", ".", "m", "i", "d">>)>>
      [] d = "Dmulti" -> <<Src(<<"a", ".", "m", "i", "d">>),
                           Src(<<"b", ".", "M", "I", "D">>)>>
      [] d = "Denc"   -> <<NoSrc, Src(<<"a", "%", "2", "0", ".", "m", "i", "d">>)>>
      [] d = "Dblank" -> <<Src(<<"a", ".", "m", "p", "3">>), BlankSrc>>

\* The documents of the listed directory, and those redownload may be called with.
Docs == {"Dnone", "Dtrans", "D3", "Dmulti", "Denc"}
DirectDocs == Docs \cup {"Dblank"}

\* The first bytes of a file, by its content: a document and the page a server
\* answers instead of the binary start with a doctype declaration (the one in upper,
\* the other in lower case), a MIDI file with "MThd"; a file that open(.., "wb") has
\* just created or truncated is empty.
Opener(content) ==
    CASE content \in DirectDocs -> S(<<"<", "!", "D", "O", "C", "T", "Y", "P", "E", " ">>)
      [] content = "errpage"    -> S(<<"<", "!", "d", "o", "c", "t", "y", "p", "e", " ">>)
      [] content = "midi"       -> S(<<"M", "T", "h", "d">>)
      [] content = "empty"      -> <<>>

\* What the server may answer to a GET: the binary file or a page.
Responses == {"midi", "errpage"}

(***************************************************************************)
(* The file system.                                                        *)
(***************************************************************************)

\* os.path.join(folder, name), os.path.split(path)[1]
Join(folder, name) == <<folder, name>>
BaseName(path) == path[2]

\* os.path.isfile(path)
isfile(fs, path) == path \in DOMAIN fs

\* os.remove(path)
Remove(fs, path) == [q \in DOMAIN fs \ {path} |-> fs[q]]

\* open(path, "wb").write(content)
WriteFile(fs, path, content) ==
    [q \in DOMAIN fs \cup {path} |-> IF q = path THEN content ELSE fs[q]]

\* shutil.move(src, dst) for a file src that exists and a dst that is no directory:
\* os.rename, which replaces dst.
Move(fs, src, dst) ==
    [q \in (DOMAIN fs \ {src}) \cup {dst} |-> IF q = dst THEN fs[src] ELSE fs[q]]

\* The name of a sub-directory of cwd, as os.listdir gives it.
DirName(d) ==
    CASE d = "media" -> S(<<"m", "e", "d", "i", "a">>)
      [] d = "html"  -> S(<<"h", "t", "m", "l">>)
      [] d = "X"     -> S(<<"X">>)

\* os.listdir(parent): the files of "P" and, when "P" is the working directory,
\* the sub-directories created in it.
listdir(fs, ds, wd) ==
    {q[2] : q \in {r \in DOMAIN fs : r[1] = "P"}}
        \cup (IF wd = "P" THEN {DirName(d) : d \in ds} ELSE {})

\* is_html_file(dst): the first 10 bytes, in upper case, start with "<!DOCTYPE ".
is_html_file(fs, dst) ==
    startswith(upper(Take(Opener(fs[dst]), SniffLen)),
               S(<<"<", "!", "D", "O", "C", "T", "Y", "P", "E", " ">>))
(***************************************************************************)
(* redownload: its arguments and local variables are the fields of call.   *)
(* got is "None" or names the variable it was last assigned from           *)
(* (encoded_dst or src, both non-empty strings where they are assigned);   *)
(* found_url is False (written <<>>) or the last src seen, and only its    *)
(* truth value is read.                                                    *)
(***************************************************************************)

\* No name is being marked.
NoMarking == [n |-> <<>>, sub |-> <<>>, new |-> <<>>]

NoCall ==
    [html_path |-> NoPath, folder |-> None, binary_path |-> NoPath,
     html_folder |-> None, extensions |-> <<>>, idx |-> 0, got |-> "None",
     found_url |-> <<>>, dst |-> NoPath, src |-> <<>>, was_html |-> FALSE,
     warned |-> FALSE]

\* Truth value of got, and of a string.
Truthy(got) == got # "None"
NonEmpty(s) == s # <<>>

\* Whether redownload_all is running (and not a direct call of redownload).
InRun == Len(runlog) > 0 /\ runlog[Len(runlog)].end = "running"

\* runlog after g more GETs and m more moves of the running redownload_all, and
\* after it ended.
Count(log, g, m) ==
    IF InRun
    THEN [log EXCEPT ![Len(log)].gets = @ + g, ![Len(log)].moves = @ + m]
    ELSE log
Ended(log, how) == IF InRun THEN [log EXCEPT ![Len(log)].end = how] ELSE log
Failed(log) == IF InRun THEN [log EXCEPT ![Len(log)].failed = TRUE] ELSE log
Remarked(log, yes) ==
    IF InRun /\ yes THEN [log EXCEPT ![Len(log)].remarked = TRUE] ELSE log

\* Where control goes when redownload returns.
AfterCall == IF InRun THEN "loop" ELSE "idle"

\* A variant of BothSet: the test of the arguments is left out.
BothSet_never(folder, binary_path) == FALSE

\* The ValueError test: binary_path and folder are both set.
BothSet(folder, binary_path) == binary_path # NoPath /\ folder # None

\* The folder redownload saves to, and the one it archives to.
FolderOf(folder, binary_path) ==
    IF binary_path = NoPath /\ folder = None THEN "media" ELSE folder
HtmlFolderOf(html_folder) == IF html_folder = None THEN "html" ELSE html_folder

\* The directories after redownload's calls of os.makedirs: the destination folder
\* unless binary_path is set, the archive folder only when html_folder is None.
MakeDirs(ds, folder, binary_path, html_folder) ==
    ds \cup (IF binary_path = NoPath THEN {FolderOf(folder, binary_path)} ELSE {})
       \cup (IF html_folder = None THEN {"html"} ELSE {})

\* The start of redownload: the test of the arguments, the directories, lh.parse.
Enter(html_path, folder, binary_path, html_folder) ==
    /\ callGets' = 0
    /\ outcomes' = {}
    /\ files0' = files
    /\ dirs0' = dirs
    /\ UNCHANGED <<cwd, marking, files>>
    /\ IF BothSet(folder, binary_path)
       THEN /\ ret' = "ValueError"
            /\ pc' = "idle"
            /\ runlog' = Ended(runlog, "raised")
            /\ call' = [NoCall EXCEPT !.html_path = html_path, !.folder = folder,
                                      !.binary_path = binary_path,
                                      !.html_folder = html_folder]
            /\ UNCHANGED dirs
       ELSE /\ dirs' = MakeDirs(dirs, folder, binary_path, html_folder)
            /\ call' = [NoCall EXCEPT !.html_path = html_path,
                                      !.folder = FolderOf(folder, binary_path),
                                      !.binary_path = binary_path,
                                      !.html_folder = HtmlFolderOf(html_folder),
                                      !.extensions = DefaultExtensions,
                                      !.idx = 1]
            /\ IF isfile(files, html_path)
               THEN /\ ret' = "none"
                    /\ pc' = "iter"
                    /\ UNCHANGED runlog
               ELSE /\ ret' = "IOError"
                    /\ pc' = "idle"
                    /\ runlog' = Ended(runlog, "raised")

\* The elements of the document being read.
Elts == DocElts(files0[call.html_path])

\* encoded_name = src[slash_i+1:]
encoded_name(src) == Drop(src, rfind(src, Ord["/"]) + 1)

\* A variant of Matches: the extension is compared as it is written.
Matches_cased(src, extensions) ==
    splitext_ext(src) \in
        {S(<<".">>) \o lower(extensions[k]) : k \in 1..Len(extensions)}

\* A variant of Matches: the extension is not compared.
Matches_any(src, extensions) == TRUE

\* dot_ext.lower() in dot_exts, where dot_exts = ["."+ext.lower() for ext in extensions]
Matches(src, extensions) ==
    lower(splitext_ext(src)) \in
        {S(<<".">>) \o lower(extensions[k]) : k \in 1..Len(extensions)}

\* dst and encoded_dst of a reference.
DstOf(c, src) ==
    IF c.binary_path = NoPath THEN Join(c.folder, unquote(encoded_name(src)))
    ELSE c.binary_path
EncodedDstOf(c, src) ==
    IF c.folder # None THEN Join(c.folder, encoded_name(src)) ELSE NoPath

\* Whether the directory of path exists.
DirExists(ds, path) == path[1] \in {"P", "W"} \cup ds

\* The first half of "keep": dst is removed when it is an HTML file.
IsStale(fs, dst) == isfile(fs, dst) /\ is_html_file(fs, dst)
WithoutStale(fs, dst) == IF IsStale(fs, dst) THEN Remove(fs, dst) ELSE fs

\* A variant of Keep: an existing file is never kept.
Keep_never(fs, dst) == FALSE

\* keep, after that test.
Keep(fs, dst) == isfile(fs, dst) /\ ~is_html_file(fs, dst)

\* Whether the file at encoded_dst is taken instead of a download.
UseLeftover(fs, encoded_dst) == encoded_dst # NoPath /\ isfile(fs, encoded_dst)

\* A fetch outcome: what was done for reference src, whose destination is dst, and
\* whether dst held an HTML file that was removed first.
Outcome(kind, dst, src, was_html) ==
    [kind |-> kind, dst |-> dst, src |-> src, was_html |-> was_html]

\* One pass of the loop over the elements, up to the call of requests.get.
Iter ==
    /\ pc = "iter"
    /\ call.idx <= Len(Elts)
    /\ UNCHANGED <<cwd, marking, dirs, todo, files0, dirs0, callGets>>
    /\ LET elt == Elts[call.idx]
           src == elt.src
           dst == DstOf(call, src)
           encoded_dst == EncodedDstOf(call, src)
           fs1 == WithoutStale(files, dst)
       IN  IF ~elt.has_src
           THEN /\ call' = [call EXCEPT !.idx = @ + 1]
                /\ UNCHANGED <<files, pc, ret, outcomes, runlog>>
           ELSE IF ~Matches(src, call.extensions)
           THEN /\ call' = [call EXCEPT !.idx = @ + 1, !.found_url = src]
                /\ UNCHANGED <<files, pc, ret, outcomes, runlog>>
           ELSE IF call.binary_path # NoPath /\ Truthy(call.got)
           THEN /\ call' = [call EXCEPT !.idx = @ + 1, !.found_url = src]
                /\ UNCHANGED <<files, pc, ret, outcomes, runlog>>
           ELSE IF Keep(files, dst)
           THEN /\ call' = [call EXCEPT !.idx = @ + 1, !.found_url = src]
                /\ outcomes' = outcomes \cup {Outcome("skipped-existing", dst, src, IsStale(files, dst))}
                /\ UNCHANGED <<files, pc, ret, runlog>>
           ELSE IF UseLeftover(fs1, encoded_dst)
           THEN /\ files' = Move(fs1, encoded_dst, dst)
                /\ call' = [call EXCEPT !.idx = @ + 1, !.found_url = src,
                                        !.got = "encoded_dst"]
                /\ outcomes' = outcomes \cup {Outcome("reused-leftover", dst, src, IsStale(files, dst))}
                /\ runlog' = Count(runlog, 0, 1)
                /\ UNCHANGED <<pc, ret>>
           ELSE IF DirExists(dirs, dst)
           THEN /\ files' = WriteFile(fs1, dst, "empty")
                /\ call' = [call EXCEPT !.found_url = src, !.dst = dst, !.src = src,
                                        !.was_html = IsStale(files, dst)]
                /\ pc' = "get"
                /\ UNCHANGED <<ret, outcomes, runlog>>
           ELSE /\ files' = fs1
                /\ call' = [call EXCEPT !.found_url = src]
                /\ ret' = "IOError"
                /\ pc' = "idle"
                /\ runlog' = Ended(runlog, "raised")
                /\ UNCHANGED outcomes

\* got after a download whose result is (is not) an HTML file.
GotAfter(got, html) == IF html THEN got ELSE "src"

\* The rest of download and of the pass: the server answers, the body is written,
\* the file is sniffed.
Get ==
    /\ pc = "get"
    /\ \E resp \in Responses :
         LET fs1 == WriteFile(files, call.dst, resp)
             html == is_html_file(fs1, call.dst)
         IN  /\ files' = IF html THEN Remove(fs1, call.dst) ELSE fs1
             /\ call' = [call EXCEPT !.idx = @ + 1, !.got = GotAfter(@, html)]
             /\ outcomes' = outcomes \cup
                    {Outcome(IF html THEN "failed-html-again" ELSE "downloaded",
                             call.dst, call.src, call.was_html)}
             /\ runlog' = IF html THEN Failed(Count(runlog, 1, 0))
                          ELSE Count(runlog, 1, 0)
    /\ callGets' = callGets + 1
    /\ pc' = "iter"
    /\ UNCHANGED <<cwd, marking, dirs, todo, ret, files0, dirs0>>

\* requests.get raises (no connection): the exception leaves redownload and
\* redownload_all, and the file download opened stays as it is.
GetRaises ==
    /\ pc = "get"
    /\ callGets' = callGets + 1
    /\ runlog' = Ended(Count(runlog, 1, 0), "raised")
    /\ ret' = "ConnectionError"
    /\ pc' = "idle"
    /\ UNCHANGED <<cwd, marking, dirs, files, todo, call, outcomes, files0, dirs0>>

\* A variant of Archives: the HTML file is moved whatever got is.
Archives_always(got) == TRUE

\* Whether the HTML file is moved to the archive folder.
Archives(got) == Truthy(got)

\* After the loop: the move of the HTML file and the warning.
Finish ==
    /\ pc = "iter"
    /\ call.idx > Len(Elts)
    /\ UNCHANGED <<cwd, marking, dirs, todo, outcomes, callGets, files0, dirs0>>
    /\ LET moved_old == Join(call.html_folder, BaseName(call.html_path))
       IN  IF ~Archives(call.got)
           THEN /\ ret' = "returned"
                /\ pc' = AfterCall
                /\ call' = [call EXCEPT !.warned = ~NonEmpty(call.found_url)]
                /\ UNCHANGED <<files, runlog>>
           ELSE IF DirExists(dirs, moved_old)
           THEN /\ files' = Move(files, call.html_path, moved_old)
                /\ ret' = "returned"
                /\ pc' = AfterCall
                /\ call' = [call EXCEPT !.warned = ~NonEmpty(call.found_url)]
                /\ runlog' = Count(runlog, 0, 1)
           ELSE /\ ret' = "IOError"
                /\ pc' = "idle"
                /\ runlog' = Ended(runlog, "raised")
                /\ UNCHANGED <<files, call>>
(***************************************************************************)
(* redownload_all, and the end of the process.                             *)
(***************************************************************************)

\* How many times redownload_all is started in a behaviour.
MaxRuns == 2

NewRun(n) ==
    [n |-> n, end |-> "running", failed |-> FALSE, remarked |-> FALSE,
     gets |-> 0, moves |-> 0]

\* How many times redownload_all has been started.
Runs == IF runlog = <<>> THEN 0 ELSE runlog[Len(runlog)].n

\* The start of redownload_all: os.listdir(parent) is read once, before the loop.
StartRun ==
    /\ pc = "idle"
    /\ Runs < MaxRuns
    /\ runlog' = IF runlog = <<>> THEN <<NewRun(1)>>
                  ELSE <<runlog[Len(runlog)], NewRun(Runs + 1)>>
    /\ todo' = listdir(files, dirs, cwd)
    /\ pc' = "loop"
    /\ call' = NoCall
    /\ ret' = "none"
    /\ outcomes' = {}
    /\ callGets' = 0
    /\ files0' = files
    /\ dirs0' = dirs
    /\ UNCHANGED <<cwd, marking, dirs, files>>

\* An entry that starts with pseudo_protocol: redownload(sub_path), with the
\* defaults for every other argument.
VisitCandidate ==
    /\ pc = "loop"
    /\ \E sub \in todo :
         /\ startswith(sub, pseudo_protocol)
         /\ todo' = todo \ {sub}
         /\ Enter(Join("P", sub), None, NoPath, None)

\* new = sub[1:]
Unmarked(sub) == Drop(sub, ColonCut)

\* Whether a name starts with one of the two markers.
StillMarked(name) == startswith(name, pseudo_protocol) \/ startswith(name, pseudo_colon)

\* The two paths of shutil.move(sub, new): both names are relative, so they are
\* looked up in the working directory.
LegacySource(wd, sub) == Join(wd, sub)

\* A variant of LegacyTarget: the file is moved to the name it has.
LegacyTarget_same(wd, sub) == Join(wd, sub)

LegacyTarget(wd, sub) == Join(wd, Unmarked(sub))

\* An entry that starts with the pseudo-colon: shutil.move(sub, new), which raises
\* when the working directory holds no file of that name.
VisitLegacy ==
    /\ pc = "loop"
    /\ \E sub \in todo :
         /\ ~startswith(sub, pseudo_protocol)
         /\ startswith(sub, pseudo_colon)
         /\ todo' = todo \ {sub}
         /\ IF isfile(files, LegacySource(cwd, sub)) /\ NonEmpty(Unmarked(sub))
            THEN /\ files' = Move(files, LegacySource(cwd, sub), LegacyTarget(cwd, sub))
                 /\ runlog' = Remarked(Count(runlog, 0, 1), StillMarked(Unmarked(sub)))
                 /\ ret' = "none"
                 /\ UNCHANGED pc
            ELSE /\ ret' = "IOError"
                 /\ pc' = "idle"
                 /\ runlog' = Ended(runlog, "raised")
                 /\ UNCHANGED files
    /\ UNCHANGED <<cwd, marking, dirs, call, outcomes, callGets, files0, dirs0>>

\* Any other entry is skipped.
VisitOther ==
    /\ pc = "loop"
    /\ \E sub \in todo :
         /\ ~startswith(sub, pseudo_protocol)
         /\ ~startswith(sub, pseudo_colon)
         /\ todo' = todo \ {sub}
    /\ ret' = "none"
    /\ UNCHANGED <<cwd, marking, dirs, files, pc, call, outcomes, runlog, callGets,
                   files0, dirs0>>

\* The loop of redownload_all is over: the process ends, and with it the local
\* variables.
EndRun ==
    /\ pc = "loop"
    /\ todo = {}
    /\ pc' = "idle"
    /\ runlog' = Ended(runlog, "done")
    /\ call' = NoCall
    /\ ret' = "none"
    /\ outcomes' = {}
    /\ callGets' = 0
    /\ files0' = files
    /\ dirs0' = dirs
    /\ UNCHANGED <<cwd, marking, dirs, files, todo>>

\* The process is killed: there is no handler, the files stay as they are.
Terminate ==
    /\ pc \in {"loop", "iter", "get"}
    /\ pc' = "idle"
    /\ ret' = "killed"
    /\ runlog' = Ended(runlog, "killed")
    /\ todo' = {}
    /\ call' = NoCall
    /\ outcomes' = {}
    /\ callGets' = 0
    /\ files0' = files
    /\ dirs0' = dirs
    /\ UNCHANGED <<cwd, marking, dirs, files>>

(***************************************************************************)
(* The initial states: a directory "P" of files saved by a download        *)
(* manager, and what earlier runs of the script may have left.             *)
(***************************************************************************)

NameX == pseudo_protocol \o S(<<"x">>)
NameY == pseudo_protocol \o S(<<"y">>)
NameColonZ == pseudo_colon \o S(<<"z">>)
NameColonY == pseudo_colon \o NameY
NameA == S(<<"a", ".", "m", "i", "d">>)
NameASpace == S(<<"a", " ", ".", "m", "i", "d">>)
NameAEnc == S(<<"a", "%", "2", "0", ".", "m", "i", "d">>)

\* The function with the pairs of f and of g (f wins).
Both(f, g) == [q \in DOMAIN f \cup DOMAIN g |-> IF q \in DOMAIN f THEN f[q] ELSE g[q]]
One(path, content) == [q \in {path} |-> content]
NoFiles == [q \in {} |-> "empty"]

\* What the destination folder may hold at the start: nothing, a file saved by an
\* earlier run, a page saved in its place, a file saved under its encoded name by an
\* older version of the script.
MediaStates ==
    {NoFiles,
     One(Join("media", NameA), "midi"),
     One(Join("media", NameA), "errpage"),
     One(Join("media", NameAEnc), "midi"),
     One(Join("media", NameAEnc), "errpage"),
     Both(One(Join("media", NameASpace), "midi"), One(Join("media", NameAEnc), "midi")),
     Both(One(Join("media", NameASpace), "errpage"), One(Join("media", NameAEnc), "midi")),
     Both(One(Join("media", NameASpace), "errpage"), One(Join("media", NameAEnc), "errpage"))}

\* The marked files of "P": a candidate, and beside it nothing, a second candidate,
\* a file or a document under the legacy marker, or a document saved twice (once
\* under each marker).
MarkedStates ==
    {Both(One(Join("P", NameX), d), other) :
        d \in Docs,
        other \in {NoFiles,
                   One(Join("P", NameY), "D3"),
                   One(Join("P", NameColonZ), "midi"),
                   One(Join("P", NameColonY), "D3"),
                   Both(One(Join("P", NameY), "Dtrans"),
                        One(Join("P", NameColonY), "D3"))}}

InitFiles(wd) ==
    /\ cwd = wd
    /\ \E media \in MediaStates, marked \in MarkedStates :
         /\ dirs = IF media = NoFiles THEN {} ELSE {"media", "html"}
         /\ files = Both(marked, media)
    /\ pc = "idle"
    /\ todo = {}
    /\ call = NoCall
    /\ ret = "none"
    /\ outcomes = {}
    /\ runlog = <<>>
    /\ callGets = 0
    /\ files0 = files
    /\ dirs0 = dirs
    /\ marking = NoMarking

Init == \E wd \in {"P", "W"} : InitFiles(wd)

Next ==
    \/ StartRun
    \/ VisitCandidate
    \/ VisitLegacy
    \/ VisitOther
    \/ EndRun
    \/ Iter
    \/ Get
    \/ GetRaises
    \/ Finish
    \/ Terminate

Spec == Init /\ [][Next]_vars
(***************************************************************************)
(* redownload called directly, with any of its arguments set.              *)
(***************************************************************************)

DirectCall ==
    /\ pc = "idle"
    /\ ret = "none"
    /\ call = NoCall
    /\ runlog = <<>>
    /\ \E folder \in {None, "media", "X"},
          binary_path \in {NoPath, Join("X", NameA)},
          html_folder \in {None, "html", "X"} :
         Enter(Join("P", NameX), folder, binary_path, html_folder)
    /\ UNCHANGED todo

InitCall ==
    /\ cwd = "P"
    /\ \E d \in DirectDocs, media \in MediaStates,
          x \in {NoFiles, One(Join("X", NameA), "midi"), One(Join("X", NameA), "errpage")} :
         /\ dirs = (IF media = NoFiles THEN {} ELSE {"media", "html"})
                      \cup (IF x = NoFiles THEN {} ELSE {"X"})
         /\ files = Both(One(Join("P", NameX), d), Both(media, x))
    /\ pc = "idle"
    /\ todo = {}
    /\ call = NoCall
    /\ ret = "none"
    /\ outcomes = {}
    /\ runlog = <<>>
    /\ callGets = 0
    /\ files0 = files
    /\ dirs0 = dirs
    /\ marking = NoMarking

NextCall ==
    \/ DirectCall
    \/ Iter
    \/ Get
    \/ GetRaises
    \/ Finish
    \/ Terminate

SpecCall == InitCall /\ [][NextCall]_vars
(***************************************************************************)
(* The markers as functions of a name: undo puts pseudo_protocol before a  *)
(* name, redownload_all computes the name without the marker it finds.     *)
(***************************************************************************)

\* The longest stem of a name.
MaxStem == 2

\* The names: a stem, with or without the pseudo-colon, after nothing or after
\* pseudo_protocol, and an extension.
Stems == UNION {[1..k -> {Ord["a"], Ord["pseudo_colon"]}] : k \in 0..MaxStem}
Names ==
    {prefix \o stem \o ext :
        prefix \in {<<>>, pseudo_protocol},
        stem \in Stems,
        ext \in {S(<<".", "m", "i", "d">>), S(<<".", "M", "I", "D">>),
                 S(<<".", "m", "p", "3">>)}}

\* new = pseudo_protocol + sub
mark(sub) == pseudo_protocol \o sub

\* The one-character variant: the pseudo-colon before the name.
mark_colon(sub) == pseudo_colon \o sub

\* A variant of StripProtocol: one character less is cut off.
StripProtocol_short(sub) == Drop(sub, ProtocolCut - 1)

\* new = sub[5:]
StripProtocol(sub) == Drop(sub, ProtocolCut)

\* new, as the branches of redownload_all compute it (an entry with neither marker
\* is skipped and keeps its name).
unmark(sub) ==
    IF startswith(sub, pseudo_protocol) THEN StripProtocol(sub)
    ELSE IF startswith(sub, pseudo_colon) THEN Unmarked(sub)
    ELSE sub

\* undo, for one entry of the listing: a name that ends in ".mid" and does not start
\* with pseudo_protocol gets the marker.
UndoMark ==
    /\ pc = "idle"
    /\ marking.sub = <<>>
    /\ endswith(lower(marking.n), S(<<".", "m", "i", "d">>))
    /\ ~startswith(marking.n, pseudo_protocol)
    /\ marking' = [marking EXCEPT !.sub = marking.n, !.new = mark(marking.n)]
    /\ pc' = "marked"
    /\ UNCHANGED <<cwd, dirs, files, todo, call, ret, outcomes, runlog, callGets,
                   files0, dirs0>>

\* The name is saved with the pseudo-colon before it.
ColonMark ==
    /\ pc = "idle"
    /\ marking.sub = <<>>
    /\ marking' = [marking EXCEPT !.sub = marking.n, !.new = mark_colon(marking.n)]
    /\ pc' = "marked"
    /\ UNCHANGED <<cwd, dirs, files, todo, call, ret, outcomes, runlog, callGets,
                   files0, dirs0>>

\* redownload_all, for the entry that was marked: sub is the marked name, new the
\* name it computes from it.
ListMarked ==
    /\ pc = "marked"
    /\ marking' = [marking EXCEPT !.sub = marking.new, !.new = unmark(marking.new)]
    /\ pc' = "unmarked"
    /\ UNCHANGED <<cwd, dirs, files, todo, call, ret, outcomes, runlog, callGets,
                   files0, dirs0>>

InitMark ==
    /\ cwd = "P"
    /\ dirs = {}
    /\ \E n \in Names :
         /\ files = One(Join("P", n), "Dnone")
         /\ marking = [NoMarking EXCEPT !.n = n]
    /\ pc = "idle"
    /\ todo = {}
    /\ call = NoCall
    /\ ret = "none"
    /\ outcomes = {}
    /\ runlog = <<>>
    /\ callGets = 0
    /\ files0 = files
    /\ dirs0 = dirs

NextMark ==
    \/ UndoMark
    \/ ColonMark
    \/ ListMarked

SpecMark == InitMark /\ [][NextMark]_vars
(***************************************************************************)
(* The claims.                                                             *)
(***************************************************************************)

\* Whether call describes a call of redownload whose document was read.
CallDoc == call.html_path # NoPath /\ isfile(files0, call.html_path)

\* Whether a URL ends in ".mid", in any case.
HasTargetExt(src) == endswith(lower(src), S(<<".", "m", "i", "d">>))

\* The positions of the document's references whose extension is the target one.
TargetRefs ==
    {k \in 1..Len(Elts) : Elts[k].has_src /\ HasTargetExt(Elts[k].src)}

\* Where the HTML file of the call is archived.
ArchivePath == Join(call.html_folder, BaseName(call.html_path))

\* The HTML file of the call is in the archive folder, under its base name, and no
\* longer where it was.
Archived ==
    /\ ~isfile(files, call.html_path)
    /\ isfile(files, ArchivePath)
    /\ files[ArchivePath] = files0[call.html_path]

\* C1: when redownload returns and a fetch of the call ended downloaded,
\* skipped-existing or reused-leftover, the HTML file has been moved to the archive
\* folder under its base name.
C1_ResolvedIsArchived ==
    (/\ ret = "returned"
     /\ \E o \in outcomes :
          o.kind \in {"downloaded", "skipped-existing", "reused-leftover"})
        => Archived

\* C2: when redownload returns and a download of the call left an HTML file, that
\* destination does not exist and the HTML file of the call is where it was.
C2_FailedIsLeft ==
    (/\ ret = "returned"
     /\ \E o \in outcomes : o.kind = "failed-html-again")
        => /\ \A o \in outcomes : o.kind = "failed-html-again" => ~isfile(files, o.dst)
           /\ isfile(files, call.html_path)
           /\ ~isfile(files, ArchivePath)

\* C3, as stated: a redownload_all that follows one that ran to its end issues no
\* GET and moves no file.
C3_SecondRunIdle ==
    (Len(runlog) = 2 /\ runlog[1].end = "done")
        => (runlog[2].gets = 0 /\ runlog[2].moves = 0)

\* C3, amended: a redownload_all that follows one that ran to its end, in which no
\* download left an HTML file and no entry was renamed to a name that still starts
\* with a marker, issues no GET and moves no file.
C3_SecondRunIdleAfterCleanRun ==
    (/\ Len(runlog) = 2
     /\ runlog[1].end = "done"
     /\ ~runlog[1].failed
     /\ ~runlog[1].remarked)
        => (runlog[2].gets = 0 /\ runlog[2].moves = 0)

\* A second run has ended after a first one that downloaded and moved files.
C3_Witness ==
    /\ Len(runlog) = 2
    /\ runlog[1].end = "done" /\ ~runlog[1].failed /\ ~runlog[1].remarked
    /\ runlog[1].gets > 0 /\ runlog[1].moves > 0
    /\ runlog[2].end = "done"

\* C4: a run that follows a killed one treats no destination file that a download
\* left incomplete as an existing asset (so that it ends as an uninterrupted run
\* does).
C4_NoIncompleteAsset ==
    (Len(runlog) = 2 /\ runlog[1].end = "killed")
        => \A o \in outcomes : o.kind = "skipped-existing" => files[o.dst] # "empty"

\* C5, as stated: a call of redownload issues at most one GET.
C5_AtMostOneGet == callGets <= 1

\* C5, amended: a call of redownload issues at most one GET for each reference
\* whose extension is the target one, and has at most one fetch outcome for each.
C5_AtMostOneGetPerTargetRef ==
    CallDoc =>
        /\ callGets <= Cardinality(TargetRefs)
        /\ Cardinality(outcomes) <= Cardinality(TargetRefs)

\* A call has returned after two GETs.
C5_Witness == ret = "returned" /\ callGets = 2

\* C6, as stated: when the document has no reference with the target extension,
\* redownload issues no GET and changes neither a file nor a directory.
C6_MissChangesNothing ==
    (ret = "returned" /\ CallDoc /\ TargetRefs = {})
        => (callGets = 0 /\ files = files0 /\ dirs = dirs0)

\* C6, amended: when the document has no reference with the target extension,
\* redownload issues no GET and creates, deletes, moves and changes no file; the
\* only change it may make is to create the destination and the archive folder.
C6_MissChangesNoFile ==
    (ret = "returned" /\ CallDoc /\ TargetRefs = {})
        => /\ callGets = 0
           /\ outcomes = {}
           /\ files = files0
           /\ dirs0 \subseteq dirs
           /\ dirs \ dirs0 \subseteq {call.folder, call.html_folder}

\* A call has returned for a document whose only reference has another extension,
\* and has created the folders.
C6_Witness ==
    /\ ret = "returned" /\ CallDoc /\ TargetRefs = {}
    /\ \E k \in 1..Len(Elts) : Elts[k].has_src
    /\ dirs # dirs0

\* The reference the loop of redownload is at has the target extension, and its
\* destination exists and holds no HTML file.
C7_AtValidDestination ==
    /\ pc = "iter"
    /\ CallDoc
    /\ call.idx \in TargetRefs
    /\ isfile(files, DstOf(call, Elts[call.idx].src))
    /\ files[DstOf(call, Elts[call.idx].src)] \in {"midi", "empty"}

\* C7: for a reference whose destination exists and holds no HTML file, redownload
\* issues no GET and changes no file: the destination stays as it is, and so does
\* the file under the encoded name; the only outcome it may record is
\* skipped-existing.
C7_ValidDestinationKept ==
    [][C7_AtValidDestination =>
          /\ files' = files
          /\ callGets' <= callGets
          /\ pc' # "get"
          /\ \A o \in outcomes' \ outcomes :
                 /\ o.kind = "skipped-existing"
                 /\ o.dst = DstOf(call, Elts[call.idx].src)]_vars

\* A destination was skipped while a file under the encoded name exists beside it.
C7_Witness ==
    \E o \in outcomes :
        /\ o.kind = "skipped-existing"
        /\ isfile(files, EncodedDstOf(call, o.src))
        /\ EncodedDstOf(call, o.src) # o.dst
        /\ files = files0

\* C8: a destination that held an HTML file is not reported as an existing asset,
\* and when redownload returns no HTML file is at that destination.
C8_StaleReplaced ==
    \A o \in outcomes :
        o.was_html =>
            /\ o.kind # "skipped-existing"
            /\ ret = "returned" => ~(isfile(files, o.dst) /\ is_html_file(files, o.dst))

\* C9: a call of redownload with binary_path and folder both set raises ValueError,
\* has created no directory, has not read the document, has changed no file and has
\* issued no GET.
C9_BothSetRaises ==
    (call.binary_path # NoPath /\ call.folder # None)
        => /\ ret = "ValueError"
           /\ pc = "idle"
           /\ call.idx = 0
           /\ files = files0
           /\ dirs = dirs0
           /\ callGets = 0
           /\ outcomes = {}

\* A call with both arguments set has raised.
C9_Witness ==
    ret = "ValueError" /\ call.binary_path # NoPath /\ call.folder # None

\* C10: a call of redownload whose destination folder and archive folder are the
\* same is rejected: it does not run to its end, changes no file and issues no GET.
C10_SameFolderRejected ==
    (call.folder # None /\ call.folder = call.html_folder)
        => /\ ret # "returned"
           /\ files = files0
           /\ callGets = 0

\* Whether path holds a candidate's markup file: a document under a name that starts
\* with pseudo_protocol, in the listed directory or in the archive folder.
IsOriginal(fs, path) ==
    /\ path[1] \in {"P", "html"}
    /\ startswith(path[2], pseudo_protocol)
    /\ fs[path] \in Docs

\* Whether a step that drops path from the files may have renamed it: its content is
\* at another path afterwards.
RenamedIn(fs, fs2, path) ==
    \E q \in DOMAIN fs2 : q # path /\ fs2[q] = fs[path]

\* C11, first half: no step deletes or overwrites a candidate's markup file; after
\* the step it is, with its content, where it was or in the archive folder under its
\* base name.
C11_OriginalKeptByStep ==
    \A p \in DOMAIN files :
        IsOriginal(files, p) =>
            \/ (isfile(files', p) /\ files'[p] = files[p])
            \/ (isfile(files', Join("html", BaseName(p)))
                   /\ files'[Join("html", BaseName(p))] = files[p])

\* C11, second half: the only file a step removes without renaming it is the
\* destination of the reference the loop is at, which holds an HTML file or is the
\* file a download has just opened.
C11_OnlyStaleRemovedByStep ==
    \A p \in DOMAIN files \ DOMAIN files' :
        \/ RenamedIn(files, files', p)
        \/ /\ pc = "iter" /\ p = DstOf(call, Elts[call.idx].src) /\ is_html_file(files, p)
        \/ /\ pc = "get" /\ p = call.dst /\ files[p] = "empty"

\* C11: a candidate's markup file is never deleted or overwritten, and the only
\* files removed are destination files sniffed as HTML.
C11_OriginalsNeverLost ==
    [][C11_OriginalKeptByStep /\ C11_OnlyStaleRemovedByStep]_vars

\* C12: a failure while redownload_all processes one candidate (the server cannot
\* be reached, a file cannot be opened or moved) does not leave redownload_all: the
\* run goes on with the entries that are left.
C12_ErrorsContained ==
    (/\ Len(runlog) > 0
     /\ call.html_path # NoPath
     /\ ret = "ConnectionError")
        => (runlog[Len(runlog)].end = "running" /\ pc = "loop")

\* C13: in a call of redownload that saves to a folder, the destination folder and
\* the archive folder exist once the arguments are handled, whether they are the
\* defaults or given by the caller, so neither the write to the destination nor the
\* move of the HTML file to the archive folder fails; a folder that existed stays.
C13_FoldersCreated ==
    (CallDoc /\ call.binary_path = NoPath /\ call.idx > 0)
        => /\ ret # "IOError"
           /\ dirs0 \subseteq dirs

\* Whether an entry of the listing starts with the pseudo-colon and not with
\* pseudo_protocol.
IsLegacy(sub) == startswith(sub, pseudo_colon) /\ ~startswith(sub, pseudo_protocol)

\* C14: when redownload_all visits an entry that starts with the pseudo-colon, the
\* file of that name in the listed directory is renamed there to the name without
\* the pseudo-colon, whatever the working directory is; the file is not parsed, no
\* GET is issued and the loop goes on.
C14_LegacyRenamedInPlace ==
    [][\A sub \in todo \ todo' :
          (pc = "loop" /\ IsLegacy(sub) /\ ret' # "killed")
              => /\ ~isfile(files', Join("P", sub))
                 /\ isfile(files', Join("P", Drop(sub, ColonCut)))
                 /\ files'[Join("P", Drop(sub, ColonCut))] = files[Join("P", sub)]
                 /\ callGets' = callGets
                 /\ call' = call
                 /\ pc' = "loop"]_vars

\* The parts of s between the occurrences of code point sep (s.split(sep)).
RECURSIVE SplitAt(_, _)
SplitAt(s, sep) ==
    LET at == {k \in 1..Len(s) : s[k] = sep}
    IN  IF at = {} THEN <<s>>
        ELSE LET k == CHOOSE j \in at : \A i \in at : j <= i
             IN  <<Take(s, k - 1)>> \o SplitAt(Drop(s, k), sep)

\* Whether code point c may occur in a token of an HTTP header (RFC 7230, tchar):
\* a letter, a digit or one of ! # $ % & ' * + - . ^ _ ` | ~
IsTokenChar(c) ==
    \/ (c >= 48 /\ c <= 57)
    \/ (c >= 65 /\ c <= 90)
    \/ (c >= 97 /\ c <= 122)
    \/ c \in {33, 35, 36, 37, 38, 39, 42, 43, 45, 46, 94, 95, 96, 124, 126}

\* Whether s is a non-empty token.
IsToken(s) == Len(s) > 0 /\ \A k \in 1..Len(s) : IsTokenChar(s[k])

\* Whether s has the form <name>/<version>, both tokens.
IsProduct(s) ==
    LET parts == SplitAt(s, Ord["/"])
    IN  Len(parts) = 2 /\ IsToken(parts[1]) /\ IsToken(parts[2])

\* Whether s has the form (<contact>), the contact not empty and without brackets.
IsComment(s) ==
    /\ Len(s) > 2
    /\ s[1] = Ord["("]
    /\ s[Len(s)] = Ord[")"]
    /\ \A k \in 2..(Len(s) - 1) : s[k] \notin {Ord["("], Ord[")"]}

\* Whether a User-Agent value has the form
\* <product>/<version> (<contact>) <library>/<version>.
IsUserAgentValue(s) ==
    LET parts == SplitAt(s, Ord[" "])
    IN  /\ Len(parts) = 3
        /\ IsProduct(parts[1])
        /\ IsComment(parts[2])
        /\ IsProduct(parts[3])

\* C15: whenever download issues a GET, the headers it passes hold a User-Agent
\* whose value has the form <product>/<version> (<contact>) <library>/<version>,
\* with nothing before the product.
C15_UserAgentWellFormed ==
    pc = "get" =>
        /\ "User-Agent" \in DOMAIN headers
        /\ IsUserAgentValue(headers["User-Agent"])

\* The value of the header without its first twelve characters ("User-Agent: ") has
\* that form.
C15_RestWellFormed == pc = "get" => IsUserAgentValue(Drop(headers["User-Agent"], 12))

\* Whether a name holds a marker (both markers hold the pseudo-colon).
HasMarker(n) == \E k \in 1..Len(n) : n[k] = Ord["pseudo_colon"]

\* C16: for a name n without a marker, the name redownload_all computes from the
\* marked name is n again, for the marker undo puts before it (cut off by its
\* length, 5) and for the pseudo-colon alone (cut off by 1).
C16_UnmarkUndoesMark ==
    (pc = "unmarked" /\ ~HasMarker(marking.n))
        => /\ marking.sub \in {mark(marking.n), mark_colon(marking.n)}
           /\ marking.new = marking.n

\* A name with an upper-case extension got pseudo_protocol and lost it again.
C16_Witness ==
    /\ pc = "unmarked"
    /\ ~HasMarker(marking.n)
    /\ marking.sub = pseudo_protocol \o marking.n
    /\ marking.new = S(<<"a", "a", ".", "M", "I", "D">>)

\* The loop of redownload is at an element of the document.
C17_AtElement == pc = "iter" /\ CallDoc /\ call.idx <= Len(Elts)

\* C17: the loop of redownload, called as redownload_all calls it, selects the
\* references whose extension is the target one in any case, and only those: for
\* such a reference the step opens its destination for a
\* GET of its URL or records a fetch outcome for it; for any other element it
\* issues no GET, writes no file and records nothing.
C17_OnlyTargetRefsSelected ==
    [][(C17_AtElement /\ ret' # "killed") =>
          IF call.idx \in TargetRefs
          THEN \/ pc' = "get" /\ call'.src = Elts[call.idx].src
               \/ \E o \in outcomes' \ outcomes : o.src = Elts[call.idx].src
          ELSE /\ files' = files
               /\ callGets' = callGets
               /\ outcomes' = outcomes
               /\ pc' = "iter"]_vars

\* redownload has returned for the document with an .mp3, an .ogg and a .mid
\* reference: one GET, for the .mid URL, and one file more, at its destination.
C17_Witness ==
    /\ ret = "returned"
    /\ CallDoc
    /\ files0[call.html_path] = "D3"
    /\ callGets = 1
    /\ outcomes = {Outcome("downloaded", Join("media", NameA),
                           S(<<"h", "/", "a", ".", "m", "i", "d">>), FALSE)}
    /\ DOMAIN files \ DOMAIN files0 = {Join("media", NameA), ArchivePath}

\* redownload has fetched a reference whose extension is written in upper case.
C17_WitnessUpper ==
    \E o \in outcomes :
        /\ o.kind = "downloaded"
        /\ o.src = S(<<"h", "/", "b", ".", "M", "I", "D">>)

\* Whether an element of the document read has a src attribute.
AnySrc == \E k \in 1..Len(Elts) : Elts[k].has_src

\* C18: when redownload returns, found_url is true exactly when an element of the
\* document has a src attribute, whatever its value, and the warning was printed
\* exactly when found_url is false.
C18_FoundAnyReference ==
    (ret = "returned" /\ CallDoc)
        => /\ NonEmpty(call.found_url) <=> AnySrc
           /\ call.warned <=> ~NonEmpty(call.found_url)

\* The second half alone: the warning was printed exactly when found_url is false.
C18_WarnedIffNotFound ==
    (ret = "returned" /\ CallDoc) => (call.warned <=> ~NonEmpty(call.found_url))

\* C19: when redownload has moved the HTML file to the archive folder, the
\* destination of a reference with the target extension holds a file that is no
\* HTML file, also when that file is the one taken over from the encoded name.
C19_ArchivedHasAsset ==
    (ret = "returned" /\ CallDoc /\ Archived)
        => \E k \in TargetRefs :
               /\ isfile(files, DstOf(call, Elts[k].src))
               /\ ~is_html_file(files, DstOf(call, Elts[k].src))
====
